---- MODULE Spec2Model ----
(***************************************************************************)
(* Backtest simulation core of strategy_backtest:                          *)
(*   - BacktestEngine (src/backtest_engine.py): the bar loop of run(),     *)
(*     _open_position, _close_position, the cost model, the curves;        *)
(*   - TradingStrategy (src/strategies/base_strategy.py): manage_risk,     *)
(*     _calculate_position_size, check_exit_conditions, Position.          *)
(*                                                                         *)
(* Numbers.  The code computes with floats; the model computes the same    *)
(* expressions exactly, on integers:                                       *)
(*   prices      integer price units;                                      *)
(*   lot sizes   integer multiples of 1/LotScale lot (0.001 lot);           *)
(*   money       integer multiples of (price unit x 1/LotScale lot), so     *)
(*               that (exit - entry) * size is the code's pnl;             *)
(*   fractions   (percentages, point size, ratios) pairs <<num, den>>.     *)
(* An optional price (None in the code) is 0; every real price is > 0.     *)
(* An optional object (Position, Signal, symbol_info) is a record whose    *)
(* first field says whether it is there.                                   *)
(***************************************************************************)
EXTENDS Integers, Sequences, FiniteSets, TLC

VARIABLES
    cfg,               \* BacktestConfig + the symbol_info and data index given to run()
    pc,                \* position of run() (or of the caller of a pure function)
    bar,               \* the bar of the current loop iteration
    signal,            \* signals_dict[timestamp] of the current bar, if any
    timestamps,        \* self.timestamps
    current_balance,   \* self.current_balance
    equity,            \* self.equity
    current_position,  \* self.current_position
    trades,            \* self.trades
    equity_curve,      \* self.equity_curve
    balance_curve,     \* self.balance_curve
    position_high,     \* self.position_high
    position_low,      \* self.position_low
    result,            \* the BacktestResult returned by run()
    log,               \* what the engine's logger was told, in order
    signals_seen,      \* how many signals of signals_dict the loop has met
    strategy_log,      \* warnings and errors told to the strategy's logger
    call,              \* arguments of a direct call of a strategy function
    ret                \* what that call returned

vars == <<cfg, pc, bar, signal, timestamps, current_balance, equity,
          current_position, trades, equity_curve, balance_curve,
          position_high, position_low, result, log, signals_seen,
          strategy_log, call, ret>>

engineVars == <<cfg, bar, signal, timestamps, current_balance, equity,
                current_position, trades, equity_curve, balance_curve,
                position_high, position_low, result, log, signals_seen,
                strategy_log>>

---------------------------------------------------------------------------
(* Exact arithmetic *)

Abs(x) == IF x < 0 THEN -x ELSE x

Max(a, b) == IF a >= b THEN a ELSE b

Min(a, b) == IF a <= b THEN a ELSE b

\* a / b where the model's units make the quotient an integer; TLC stops
\* with an error if it is not, so no rounding is ever introduced silently.
ExactDiv(a, b) == CHOOSE q \in {a \div b} : q * b = a

\* price * pct for a fraction pct = <<num, den>>
Pct(price, pct) == ExactDiv(price * pct[1], pct[2])

\* Python's round(n / d) for n >= 0, d > 0: nearest integer, ties to even.
RoundHalfEven(n, d) ==
    LET q == n \div d
        r == n % d
    IN  IF 2 * r < d THEN q
        ELSE IF 2 * r > d THEN q + 1
        ELSE IF q % 2 = 0 THEN q ELSE q + 1

\* floor(n / (d1 * d2)), ceil(n / (d1 * d2)) and round(n / (d1 * d2)) without
\* forming d1 * d2, which does not fit TLC's 32-bit integers for the
\* instruments with contract size 100000.
FloorRatio(n, d1, d2) == (n \div d1) \div d2

CeilRatio(n, d1, d2) ==
    IF (n % d1 = 0) /\ ((n \div d1) % d2 = 0)
    THEN FloorRatio(n, d1, d2) ELSE FloorRatio(n, d1, d2) + 1

RoundRatio(n, d1, d2) ==
    LET a == n \div d1
        b == n % d1
        q == a \div d2
        c == a % d2
        \* n/(d1*d2) - q = (c*d1 + b)/(d1*d2), compared with 1/2
        above == \/ 2 * c > d2
                 \/ 2 * c = d2 /\ b > 0
                 \/ 2 * c = d2 - 1 /\ 2 * b > d1
        tie   == \/ 2 * c = d2 /\ b = 0
                 \/ 2 * c = d2 - 1 /\ 2 * b = d1
    IN  IF above THEN q + 1
        ELSE IF tie THEN (IF q % 2 = 0 THEN q ELSE q + 1)
        ELSE q

---------------------------------------------------------------------------
(* Units and optional values *)

\* round(position_size, 2): lot sizes are kept to two decimals
RoundDecimals == 2

\* lot sizes are counted in units one decimal finer than that rounding
LotScale == 10 ^ (RoundDecimals + 1)

\* lots given as a decimal fraction <<num, den>>, in lot units
Lots(f) == ExactDiv(f[1] * LotScale, f[2])

\* dollars, in money units (one price unit is one dollar)
Money(dollars) == dollars * LotScale

None == 0

Infinity == 2 ^ 30

NoSymbolInfo ==
    [present |-> FALSE, name |-> "none", point |-> <<1, 1>>, spread |-> 0,
     trade_contract_size |-> 1, volume_min |-> 0, volume_max |-> 0,
     volume_step |-> 1]

NoSignal ==
    [present |-> FALSE, timestamp |-> 0, signal_type |-> "NONE", price |-> None,
     stop_loss |-> None, take_profit |-> None, position_size |-> 0,
     reason |-> "signal"]

NoPosition ==
    [present |-> FALSE, entry_timestamp |-> 0, entry_price |-> 0,
     position_type |-> "NONE", size |-> 0, stop_loss |-> None,
     take_profit |-> None, trailing_stop |-> None, highest_price |-> 0,
     lowest_price |-> Infinity]

NoBar == [low |-> 0, high |-> 0, close |-> 0]

\* a trailing stop that follows every price, favourable or not
update_trailing_stop_always(position, current_price, trailing_pct) ==
    IF position.position_type = "LONG"
    THEN [position EXCEPT !.highest_price = current_price,
                          !.trailing_stop =
                              current_price - Pct(current_price, trailing_pct)]
    ELSE [position EXCEPT !.lowest_price = current_price,
                          !.trailing_stop =
                              current_price + Pct(current_price, trailing_pct)]

\* Position.update_trailing_stop: the position after the call
update_trailing_stop(position, current_price, trailing_pct) ==
    IF position.position_type = "LONG"
    THEN IF current_price > position.highest_price
         THEN [position EXCEPT !.highest_price = current_price,
                               !.trailing_stop =
                                   current_price - Pct(current_price, trailing_pct)]
         ELSE position
    ELSE IF current_price < position.lowest_price
         THEN [position EXCEPT !.lowest_price = current_price,
                               !.trailing_stop =
                                   current_price + Pct(current_price, trailing_pct)]
         ELSE position

---------------------------------------------------------------------------
(* TradingStrategy: constructor arguments and parameters (their defaults) *)

risk_per_trade == <<1, 50>>        \* 0.02

fixed_stop_pct == <<1, 50>>        \* parameters.get('fixed_stop_pct', 0.02)

risk_reward_ratio == 2             \* parameters.get('risk_reward_ratio', 2.0)

use_trailing_stop == TRUE

trailing_stop_pct == <<1, 50>>       \* trailing_stop_pct: float = 0.02

\* a fallback instrument with the contract size of a metal
DefaultSymbolInfoMetal ==
    [present |-> TRUE, name |-> "default", point |-> <<1, 100>>,
     spread |-> 0, trade_contract_size |-> 100,
     volume_min |-> Lots(<<1, 100>>), volume_max |-> Lots(<<100, 1>>),
     volume_step |-> Lots(<<1, 100>>)]

\* The instrument _calculate_position_size assumes when it is given none.
DefaultSymbolInfo ==
    [present |-> TRUE, name |-> "default", point |-> <<1, 100000>>,
     spread |-> 0, trade_contract_size |-> 100000,
     volume_min |-> Lots(<<1, 100>>), volume_max |-> Lots(<<100, 1>>),
     volume_step |-> Lots(<<1, 100>>)]

\* _calculate_stop_loss; self.indicators holds no 'ATR' entry (no strategy
\* of the repository stores one there), so the fixed percentage applies.
_calculate_stop_loss(sig, current_price) ==
    IF sig.signal_type = "BUY"
    THEN current_price - Pct(current_price, fixed_stop_pct)
    ELSE current_price + Pct(current_price, fixed_stop_pct)

fixed_tp_pct == <<1, 25>>          \* parameters.get('fixed_tp_pct', 0.04)

\* _calculate_take_profit ("if signal.stop_loss:" is false for None and for 0.0)
_calculate_take_profit(sig, current_price) ==
    LET risk   == Abs(current_price - sig.stop_loss)
        reward == risk * risk_reward_ratio
    IN  IF sig.stop_loss # None
        THEN IF sig.signal_type = "BUY"
             THEN current_price + reward
             ELSE current_price - reward
        ELSE IF sig.signal_type = "BUY"
             THEN current_price + Pct(current_price, fixed_tp_pct)
             ELSE current_price - Pct(current_price, fixed_tp_pct)

\* The formula without the instrument: risk_amount / stop_distance_price,
\* the sizing the repository replaced (test_comparison_old_vs_new).
NaiveRawLots(current_price, stop_loss, account_balance, info) ==
    [n  |-> account_balance * risk_per_trade[1],
     d1 |-> risk_per_trade[2],
     d2 |-> Abs(current_price - stop_loss)]

\* position_size_calculated = risk_amount / (stop_distance_pips * value_per_pip),
\* in lot units, as the quotient n / (d1 * d2).  With risk_amount =
\* account_balance * risk_per_trade, stop_distance_pips = d / point and
\* value_per_pip = contract_size * point, the point size cancels and the
\* divisor is d * contract_size.
RawLots(current_price, stop_loss, account_balance, info) ==
    [n  |-> account_balance * risk_per_trade[1],
     d1 |-> risk_per_trade[2] * info.trade_contract_size,
     d2 |-> Abs(current_price - stop_loss)]

\* a sizing that answers a zero stop distance with no lots at all
_calculate_position_size_flat(sig, current_price, account_balance, symbol_info) ==
    LET stop_loss == IF sig.stop_loss = None
                     THEN _calculate_stop_loss(sig, current_price)
                     ELSE sig.stop_loss
        info == IF ~symbol_info.present THEN DefaultSymbolInfo ELSE symbol_info
        stop_distance_price == Abs(current_price - stop_loss)
        raw == RawLots(current_price, stop_loss, account_balance, info)
        min_size    == info.volume_min
        max_size    == info.volume_max
        volume_step == info.volume_step
        stepped == RoundRatio(raw.n, raw.d1, raw.d2 * volume_step) * volume_step
        limited == Max(min_size, Min(stepped, max_size))
        cent    == ExactDiv(LotScale, 10 ^ RoundDecimals)
    IN  IF stop_distance_price = 0
        THEN 0
        ELSE RoundHalfEven(limited, cent) * cent

_calculate_position_size(sig, current_price, account_balance, symbol_info) ==
    LET stop_loss == IF sig.stop_loss = None
                     THEN _calculate_stop_loss(sig, current_price)
                     ELSE sig.stop_loss
        info == IF ~symbol_info.present THEN DefaultSymbolInfo ELSE symbol_info
        stop_distance_price == Abs(current_price - stop_loss)
        raw == RawLots(current_price, stop_loss, account_balance, info)
        min_size    == info.volume_min
        max_size    == info.volume_max
        volume_step == info.volume_step
        stepped == RoundRatio(raw.n, raw.d1, raw.d2 * volume_step) * volume_step
        limited == Max(min_size, Min(stepped, max_size))
        cent    == ExactDiv(LotScale, 10 ^ RoundDecimals)
    IN  IF stop_distance_price = 0
        THEN min_size
        ELSE RoundHalfEven(limited, cent) * cent

\* What _calculate_position_size tells the logger at warning and error level,
\* in order: the missing symbol_info, the zero stop distance, the size at the
\* maximum, the size raised to the minimum, the actual risk more than a tenth
\* away from the target.  With x = risk_amount / (distance * contract_size)
\* the last test, |size * distance * contract_size - risk_amount| >
\* risk_amount * 0.1, is 10 * size > 11 * x or 10 * size < 9 * x.
SizingLog(sig, current_price, account_balance, symbol_info) ==
    LET stop_loss == IF sig.stop_loss = None
                     THEN _calculate_stop_loss(sig, current_price)
                     ELSE sig.stop_loss
        info == IF ~symbol_info.present THEN DefaultSymbolInfo ELSE symbol_info
        stop_distance_price == Abs(current_price - stop_loss)
        position_size == _calculate_position_size(sig, current_price,
                                                  account_balance, symbol_info)
        n  == account_balance * risk_per_trade[1]
        d1 == risk_per_trade[2] * info.trade_contract_size
        missing   == IF ~symbol_info.present
                     THEN <<"symbol_info_missing">> ELSE <<>>
        hit_max   == IF position_size = info.volume_max
                     THEN <<"hit_max">> ELSE <<>>
        hit_min   == IF /\ position_size = info.volume_min
                        /\ FloorRatio(n, d1, stop_distance_price) < info.volume_min
                     THEN <<"hit_min">> ELSE <<>>
        risk_differs ==
            IF \/ FloorRatio(11 * n, d1, stop_distance_price) < 10 * position_size
               \/ CeilRatio(9 * n, d1, stop_distance_price) > 10 * position_size
            THEN <<"risk_differs">> ELSE <<>>
    IN  IF stop_distance_price = 0
        THEN missing \o <<"zero_stop_distance">>
        ELSE missing \o hit_max \o hit_min \o risk_differs

---------------------------------------------------------------------------
(* Direct calls of _calculate_position_size, as test_position_sizing.py makes *)

Forex ==
    [present |-> TRUE, name |-> "EURUSD", point |-> <<1, 100000>>, spread |-> 0,
     trade_contract_size |-> 100000, volume_min |-> Lots(<<1, 100>>),
     volume_max |-> Lots(<<100, 1>>), volume_step |-> Lots(<<1, 100>>)]

Metal ==
    [present |-> TRUE, name |-> "XAUUSD", point |-> <<1, 100>>, spread |-> 0,
     trade_contract_size |-> 100, volume_min |-> Lots(<<1, 100>>),
     volume_max |-> Lots(<<100, 1>>), volume_step |-> Lots(<<1, 100>>)]

Index ==
    [present |-> TRUE, name |-> "US30", point |-> <<1, 1>>, spread |-> 0,
     trade_contract_size |-> 1, volume_min |-> Lots(<<1, 100>>),
     volume_max |-> Lots(<<100, 1>>), volume_step |-> Lots(<<1, 100>>)]

\* an instrument traded in steps of 0.001 lot
FineStep ==
    [present |-> TRUE, name |-> "fine", point |-> <<1, 100>>, spread |-> 0,
     trade_contract_size |-> 100, volume_min |-> Lots(<<1, 1000>>),
     volume_max |-> Lots(<<10, 1>>), volume_step |-> Lots(<<1, 1000>>)]

\* an instrument whose smallest volume is several steps
MinTenth ==
    [present |-> TRUE, name |-> "tenth", point |-> <<1, 10>>, spread |-> 0,
     trade_contract_size |-> 10, volume_min |-> Lots(<<1, 10>>),
     volume_max |-> Lots(<<50, 1>>), volume_step |-> Lots(<<1, 100>>)]

SizingInstruments == {NoSymbolInfo, Forex, Metal, Index, FineStep, MinTenth}

SizingBalances == {Money(10000), Money(50000), Money(100000)}

SizingEntry == 2650

\* stop distances |entry - stop|, in price units; 0 is the degenerate stop
SizingDistances == {0, 1, 3, 34, 200, 500}

\* signals that carry their stop, and signals that leave it to the strategy
SizingSignals ==
    { [NoSignal EXCEPT !.present = TRUE, !.signal_type = t,
                       !.price = SizingEntry,
                       !.stop_loss = IF t = "BUY" THEN SizingEntry - d
                                     ELSE SizingEntry + d]
      : t \in {"BUY", "SELL"}, d \in SizingDistances }
    \cup
    { [NoSignal EXCEPT !.present = TRUE, !.signal_type = t,
                       !.price = SizingEntry]
      : t \in {"BUY", "SELL"} }

SizingCalls ==
    { [sig |-> s, current_price |-> SizingEntry, account_balance |-> b,
       symbol_info |-> i]
      : s \in SizingSignals, b \in SizingBalances, i \in SizingInstruments }

NoCall ==
    [sig |-> NoSignal, current_price |-> 0, account_balance |-> 0,
     symbol_info |-> NoSymbolInfo]

---------------------------------------------------------------------------
(* TradingStrategy.manage_risk and check_exit_conditions *)

manage_risk(sig, current_price, account_balance, symbol_info) ==
    LET s1 == IF sig.stop_loss = None
              THEN [sig EXCEPT !.stop_loss = _calculate_stop_loss(sig, current_price)]
              ELSE sig
        s2 == IF s1.take_profit = None
              THEN [s1 EXCEPT !.take_profit = _calculate_take_profit(s1, current_price)]
              ELSE s1
    IN  [s2 EXCEPT !.position_size =
            _calculate_position_size(s2, current_price, account_balance, symbol_info)]

\* a closing Signal stamped with the current bar (current_bar.name)
\* current_bar.name: the timestamp of the bar the loop is at
CurrentTimestamp ==
    IF timestamps = <<>> THEN 0 ELSE timestamps[Len(timestamps)]

CloseSignal(type, price, reason) ==
    [present |-> TRUE, timestamp |-> CurrentTimestamp, signal_type |-> type,
     price |-> price,
     stop_loss |-> None, take_profit |-> None, position_size |-> 0,
     reason |-> reason]

\* The three tests of check_exit_conditions, in the order the code makes them.
\* "if position.stop_loss:" is false for None and for 0.0 alike.
StopLossHit(position, b) ==
    /\ position.stop_loss # None
    /\ \/ position.position_type = "LONG" /\ b.low <= position.stop_loss
       \/ position.position_type = "SHORT" /\ b.high >= position.stop_loss

TakeProfitHit(position, b) ==
    /\ position.take_profit # None
    /\ \/ position.position_type = "LONG" /\ b.high >= position.take_profit
       \/ position.position_type = "SHORT" /\ b.low <= position.take_profit

TrailingStopHit(position, b) ==
    /\ use_trailing_stop
    /\ position.trailing_stop # None
    /\ \/ position.position_type = "LONG" /\ b.low <= position.trailing_stop
       \/ position.position_type = "SHORT" /\ b.high >= position.trailing_stop

CloseType(position) ==
    IF position.position_type = "LONG" THEN "CLOSE_LONG" ELSE "CLOSE_SHORT"

\* The tests in the order stop-loss, trailing stop, take-profit.
check_exit_trailing_first(position, b) ==
    IF StopLossHit(position, b)
    THEN CloseSignal(CloseType(position), position.stop_loss, "stop_loss")
    ELSE IF TrailingStopHit(position, b)
    THEN CloseSignal(CloseType(position), position.trailing_stop, "trailing_stop")
    ELSE IF TakeProfitHit(position, b)
    THEN CloseSignal(CloseType(position), position.take_profit, "take_profit")
    ELSE NoSignal

\* The same tests as the code makes, each closing at the bar's close instead
\* of the breached level.
check_exit_at_close(position, b) ==
    IF StopLossHit(position, b)
    THEN CloseSignal(CloseType(position), b.close, "stop_loss")
    ELSE IF TakeProfitHit(position, b)
    THEN CloseSignal(CloseType(position), b.close, "take_profit")
    ELSE IF TrailingStopHit(position, b)
    THEN CloseSignal(CloseType(position), b.close, "trailing_stop")
    ELSE NoSignal

check_exit_conditions(position, b) ==
    IF StopLossHit(position, b)
    THEN CloseSignal(CloseType(position), position.stop_loss, "stop_loss")
    ELSE IF TakeProfitHit(position, b)
    THEN CloseSignal(CloseType(position), position.take_profit, "take_profit")
    ELSE IF TrailingStopHit(position, b)
    THEN CloseSignal(CloseType(position), position.trailing_stop, "trailing_stop")
    ELSE NoSignal

---------------------------------------------------------------------------
(* BacktestEngine: cost model *)

\* slippage that moves every price in the trader's favour
_apply_slippage_favourable(price, signal_type) ==
    LET slippage == Pct(price, cfg.slippage_pct)
    IN  IF signal_type \in {"BUY", "CLOSE_SHORT"}
        THEN price - slippage
        ELSE price + slippage

_apply_slippage(price, signal_type) ==
    LET slippage == Pct(price, cfg.slippage_pct)
    IN  IF signal_type \in {"BUY", "CLOSE_SHORT"}
        THEN price + slippage
        ELSE price - slippage

\* symbol_info.get('spread', 0) * symbol_info.get('point', 0.00001)
Spread(symbol_info) ==
    ExactDiv(symbol_info.spread * symbol_info.point[1], symbol_info.point[2])

\* execution price of _open_position: slippage, then the spread
OpenFill(sig, symbol_info) ==
    LET execution_price == _apply_slippage(sig.price, sig.signal_type)
    IN  IF cfg.use_spread /\ symbol_info.present
        THEN IF sig.signal_type = "BUY"
             THEN execution_price + Spread(symbol_info)
             ELSE execution_price - Spread(symbol_info)
        ELSE execution_price

\* execution price of _close_position: slippage, then the spread
CloseFill(sig, symbol_info) ==
    LET execution_price == _apply_slippage(sig.price, sig.signal_type)
    IN  IF cfg.use_spread /\ symbol_info.present
        THEN IF sig.signal_type = "CLOSE_LONG"
             THEN execution_price - Spread(symbol_info)
             ELSE execution_price + Spread(symbol_info)
        ELSE execution_price

\* a commission charged on the closing side only
_calculate_commission_one_way(entry_price, exit_price, size, symbol_info) ==
    LET fixed_commission == cfg.commission
        volume           == exit_price * size
        pct_commission   == Pct(volume, cfg.commission_pct)
    IN  fixed_commission + pct_commission

_calculate_commission(entry_price, exit_price, size, symbol_info) ==
    LET fixed_commission == cfg.commission * 2
        volume           == (entry_price + exit_price) * size
        pct_commission   == Pct(volume, cfg.commission_pct)
    IN  fixed_commission + pct_commission

\* required_margin = position_value / leverage, as the fraction it is
_calculate_required_margin(price, size, symbol_info) ==
    LET contract_size  == IF symbol_info.present
                          THEN symbol_info.trade_contract_size ELSE 1
        position_value == price * size * contract_size
    IN  <<position_value, cfg.leverage>>

\* a margin test against the whole balance
MarginShareFull == <<1, 1>>

\* the share of the balance a position's margin may take: 0.9
MarginShare == <<9, 10>>

\* required_margin > self.current_balance * 0.9, for required_margin = <<v, l>>:
\* v / l > 9 b / 10  iff  10 v > 9 b l  iff  floor((10 v - 1) / l) >= 9 b
InsufficientMargin(required_margin, balance) ==
    (required_margin[1] * MarginShare[2] - 1) \div required_margin[2]
        >= MarginShare[1] * balance

---------------------------------------------------------------------------
(* BacktestEngine: the position/trade lifecycle *)

\* _open_position(signal, bar, symbol_info, strategy).  The call of
\* strategy.manage_risk passes three arguments: its symbol_info is None.
_open_position(sig, b, symbol_info) ==
    LET managed         == manage_risk(sig, b.close, current_balance, NoSymbolInfo)
        execution_price == OpenFill(managed, symbol_info)
        required_margin == _calculate_required_margin(
                               execution_price, managed.position_size, symbol_info)
    IN  /\ strategy_log' = strategy_log \o
               SizingLog(managed, b.close, current_balance, NoSymbolInfo)
        /\ IF InsufficientMargin(required_margin, current_balance)
           THEN /\ log' = Append(log, "insufficient_margin")
                /\ UNCHANGED <<current_position, position_high, position_low>>
           ELSE /\ log' = Append(log, "opened")
                /\ current_position' =
                       [present |-> TRUE,
                        entry_timestamp |-> managed.timestamp,
                        entry_price |-> execution_price,
                        position_type |-> IF managed.signal_type = "BUY"
                                          THEN "LONG" ELSE "SHORT",
                        size |-> managed.position_size,
                        stop_loss |-> managed.stop_loss,
                        take_profit |-> managed.take_profit,
                        trailing_stop |-> None,
                        highest_price |-> 0,
                        lowest_price |-> Infinity]
                /\ position_high' = execution_price
                /\ position_low' = execution_price

\* _calculate_mae_mfe: the two excursions, each a fraction of the entry price
_calculate_mae_mfe(exit_price) ==
    LET entry == current_position.entry_price
    IN  IF ~current_position.present
        THEN <<(<<0, 1>>), (<<0, 1>>)>>
        ELSE IF current_position.position_type = "LONG"
        THEN <<(<<position_low - entry, entry>>), (<<position_high - entry, entry>>)>>
        ELSE <<(<<entry - position_high, entry>>), (<<entry - position_low, entry>>)>>

\* The Trade _close_position builds from the open position and the closing signal.
TradeOf(sig, symbol_info) ==
    LET pos             == current_position
        execution_price == CloseFill(sig, symbol_info)
        pnl        == IF pos.position_type = "LONG"
                      THEN (execution_price - pos.entry_price) * pos.size
                      ELSE (pos.entry_price - execution_price) * pos.size
        commission == _calculate_commission(
                          pos.entry_price, execution_price, pos.size, symbol_info)
        net_pnl    == pnl - commission
        excursions == _calculate_mae_mfe(execution_price)
    IN  [entry_time |-> pos.entry_timestamp,
         exit_time |-> sig.timestamp,
         entry_price |-> pos.entry_price,
         exit_price |-> execution_price,
         trade_type |-> pos.position_type,
         size |-> pos.size,
         pnl |-> net_pnl,
         pnl_pct |-> <<net_pnl, pos.entry_price * pos.size>>,
         commission |-> commission,
         slippage |-> Abs(execution_price - sig.price) * pos.size,
         stop_loss |-> pos.stop_loss,
         take_profit |-> pos.take_profit,
         exit_reason |-> sig.reason,
         mae |-> excursions[1],
         mfe |-> excursions[2],
         duration_bars |->
             Cardinality({i \in 1..Len(timestamps) :
                             timestamps[i] >= pos.entry_timestamp})]

\* A close that books the trade on the balance and leaves self.equity as the
\* last mark to market left it.
CloseOutcomeStaleEquity(sig, symbol_info) ==
    IF ~current_position.present
    THEN [current_balance |-> current_balance, equity |-> equity,
          trades |-> trades, current_position |-> current_position,
          log |-> log]
    ELSE LET trade == TradeOf(sig, symbol_info)
         IN  [current_balance |-> current_balance + trade.pnl,
              equity |-> equity,
              trades |-> Append(trades, trade),
              current_position |-> NoPosition,
              log |-> Append(log, "closed")]

\* What _close_position(signal, bar, symbol_info) leaves in the engine.
CloseOutcome(sig, symbol_info) ==
    IF ~current_position.present
    THEN [current_balance |-> current_balance, equity |-> equity,
          trades |-> trades, current_position |-> current_position,
          log |-> log]
    ELSE LET trade == TradeOf(sig, symbol_info)
         IN  [current_balance |-> current_balance + trade.pnl,
              equity |-> current_balance + trade.pnl,
              trades |-> Append(trades, trade),
              current_position |-> NoPosition,
              log |-> Append(log, "closed")]

\* a close that books the trade and leaves the position in place
_close_position_keeping(sig, symbol_info) ==
    LET after == CloseOutcome(sig, symbol_info)
    IN  /\ current_balance' = after.current_balance
        /\ equity' = after.equity
        /\ trades' = after.trades
        /\ current_position' = current_position
        /\ log' = after.log

_close_position(sig, symbol_info) ==
    LET after == CloseOutcome(sig, symbol_info)
    IN  /\ current_balance' = after.current_balance
        /\ equity' = after.equity
        /\ trades' = after.trades
        /\ current_position' = after.current_position
        /\ log' = after.log

_update_mae_mfe(b) ==
    /\ position_high' = Max(position_high, b.high)
    /\ position_low' = Min(position_low, b.low)

\* a mark to market that counts realized money only
_update_equity_realized(b) ==
    equity' = current_balance

_update_equity(b) ==
    LET pos == current_position
        unrealized_pnl == IF pos.position_type = "LONG"
                          THEN (b.close - pos.entry_price) * pos.size
                          ELSE (pos.entry_price - b.close) * pos.size
    IN  IF ~pos.present
        THEN equity' = current_balance
        ELSE equity' = current_balance + unrealized_pnl

\* equity_curve.cummax()
CumMax(curve) ==
    [i \in 1..Len(curve) |->
        CHOOSE m \in {curve[j] : j \in 1..i} :
            \A j \in 1..i : curve[j] <= m]

\* the drawdown with its sign turned: (cummax - equity) / cummax
_calculate_drawdown_flipped(curve) ==
    [i \in 1..Len(curve) |-> <<CumMax(curve)[i] - curve[i], CumMax(curve)[i]>>]

\* _calculate_drawdown: (equity - cummax) / cummax, each point a fraction
_calculate_drawdown(curve) ==
    [i \in 1..Len(curve) |-> <<curve[i] - CumMax(curve)[i], CumMax(curve)[i]>>]

---------------------------------------------------------------------------
(* Performance metrics: _calculate_metrics and its helpers *)

\* A float is kept exact as a quotient of two products of integers,
\* [num |-> factors, den |-> factors]; kind tells a finite value from
\* float('inf'), from NaN, from an irrational value that is not computed
\* here, and from the ZeroDivisionError Python raises for x / 0.
Num(n) == [kind |-> "value", num |-> <<n>>, den |-> <<>>]

Inf == [kind |-> "inf", num |-> <<>>, den |-> <<>>]

NaN == [kind |-> "nan", num |-> <<>>, den |-> <<>>]

IsZero(x) == \E i \in DOMAIN x.num : x.num[i] = 0

Positive(x) ==
    /\ ~IsZero(x)
    /\ (Cardinality({i \in DOMAIN x.num : x.num[i] < 0})
          + Cardinality({i \in DOMAIN x.den : x.den[i] < 0})) % 2 = 0

AbsValue(x) ==
    [kind |-> x.kind,
     num |-> [i \in DOMAIN x.num |-> Abs(x.num[i])],
     den |-> [i \in DOMAIN x.den |-> Abs(x.den[i])]]

Multiply(x, y) ==
    [kind |-> IF x.kind = "value" THEN y.kind ELSE x.kind,
     num |-> x.num \o y.num,
     den |-> x.den \o y.den]

\* Python's x / y
Divide(x, y) ==
    [kind |-> IF x.kind # "value" THEN x.kind
              ELSE IF y.kind # "value" THEN y.kind
              ELSE IF IsZero(y) THEN "ZeroDivisionError"
              ELSE "value",
     num |-> x.num \o y.den,
     den |-> x.den \o y.num]

RECURSIVE Sum(_)
Sum(values) ==
    IF values = <<>> THEN 0 ELSE values[1] + Sum(Tail(values))

\* a / b < c / d for b > 0 and d > 0, by comparing the integer parts and
\* then the inverted remainders, so that no cross product is formed
RECURSIVE LessFraction(_, _, _, _)
LessFraction(a, b, c, d) ==
    IF a \div b # c \div d THEN a \div b < c \div d
    ELSE IF a % b = 0 THEN c % d > 0
    ELSE IF c % d = 0 THEN FALSE
    ELSE LessFraction(d, c % d, b, a % b)

\* _calculate_sharpe_ratio: 0.0 for no returns or a zero deviation; the
\* deviation of a single return is NaN in pandas, and NaN == 0 is False
_calculate_sharpe_ratio(returns) ==
    IF Len(returns) = 0 THEN Num(0)
    ELSE IF Len(returns) = 1 THEN NaN
    ELSE IF \A i, j \in 1..Len(returns) :
               ~LessFraction(returns[i][1], returns[i][2],
                             returns[j][1], returns[j][2])
         THEN Num(0)
    ELSE [kind |-> "float", num |-> <<>>, den |-> <<>>]

\* _calculate_max_drawdown: the least of (equity - cummax) / cummax
_calculate_max_drawdown(curve) ==
    LET drawdown == [i \in 1..Len(curve) |->
                        <<curve[i] - CumMax(curve)[i], CumMax(curve)[i]>>]
        least == CHOOSE i \in 1..Len(curve) :
                    \A j \in 1..Len(curve) :
                        ~LessFraction(drawdown[j][1], drawdown[j][2],
                                      drawdown[i][1], drawdown[i][2])
    IN  Divide(Num(drawdown[least][1]), Num(drawdown[least][2]))

win_rate(winning_trades, total_trades) ==
    IF total_trades > 0 THEN Divide(Num(winning_trades), Num(total_trades)) ELSE Num(0)

profit_factor(gross_profit, gross_loss) ==
    IF gross_loss > 0 THEN Divide(Num(gross_profit), Num(gross_loss)) ELSE Inf

avg_win(gross_profit, winning_trades) ==
    IF winning_trades > 0 THEN Divide(Num(gross_profit), Num(winning_trades)) ELSE Num(0)

\* the average loss without the test for a ledger that has no losing trade
avg_loss_unguarded(gross_loss, losing_trades) ==
    Divide(Num(gross_loss), Num(losing_trades))

avg_loss(gross_loss, losing_trades) ==
    IF losing_trades > 0 THEN Divide(Num(gross_loss), Num(losing_trades)) ELSE Num(0)

avg_risk_reward(average_win, average_loss) ==
    IF Positive(average_loss) THEN Divide(average_win, average_loss) ELSE Num(0)

recovery_factor(total_pnl, max_drawdown, capital) ==
    IF ~IsZero(max_drawdown)
    THEN Divide(Num(total_pnl), AbsValue(Multiply(max_drawdown, Num(capital))))
    ELSE Num(0)

calmar_ratio(final_equity, max_drawdown, capital) ==
    LET annual_return == Divide(Num(final_equity - capital), Num(capital))
    IN  IF ~IsZero(max_drawdown)
        THEN Divide(annual_return, AbsValue(max_drawdown))
        ELSE Num(0)

\* _calculate_metrics over the ledger, the equity curve and self.equity
_calculate_metrics(ledger, curve, final_equity, capital) ==
    LET total_trades   == Len(ledger)
        wins           == SelectSeq(ledger, LAMBDA t : t.pnl > 0)
        losses         == SelectSeq(ledger, LAMBDA t : t.pnl <= 0)
        winning_trades == Len(wins)
        losing_trades  == Len(losses)
        rate           == win_rate(winning_trades, total_trades)
        total_pnl      == Sum([i \in 1..Len(ledger) |-> ledger[i].pnl])
        gross_profit   == Sum([i \in 1..Len(wins) |-> wins[i].pnl])
        gross_loss     == Abs(Sum([i \in 1..Len(losses) |-> losses[i].pnl]))
        average_win    == avg_win(gross_profit, winning_trades)
        average_loss   == avg_loss(gross_loss, losing_trades)
        max_drawdown   == _calculate_max_drawdown(curve)
    IN  IF ledger = <<>>
        THEN [total_trades |-> 0]
        ELSE [total_trades |-> total_trades,
              winning_trades |-> winning_trades,
              losing_trades |-> losing_trades,
              win_rate |-> rate,
              total_pnl |-> total_pnl,
              gross_profit |-> gross_profit,
              gross_loss |-> gross_loss,
              profit_factor |-> profit_factor(gross_profit, gross_loss),
              avg_win |-> average_win,
              avg_loss |-> average_loss,
              expectancy |->
                  [minuend |-> Multiply(rate, average_win),
                   subtrahend |->
                       Multiply(Divide(Num(total_trades - winning_trades),
                                       Num(total_trades)),
                                average_loss)],
              avg_risk_reward |-> avg_risk_reward(average_win, average_loss),
              sharpe_ratio |->
                  _calculate_sharpe_ratio(
                      [i \in 1..Len(ledger) |-> ledger[i].pnl_pct]),
              max_drawdown |-> max_drawdown,
              recovery_factor |-> recovery_factor(total_pnl, max_drawdown, capital),
              calmar_ratio |-> calmar_ratio(final_equity, max_drawdown, capital),
              avg_mae |-> [mean_of |-> [i \in 1..Len(ledger) |-> ledger[i].mae]],
              avg_mfe |-> [mean_of |-> [i \in 1..Len(ledger) |-> ledger[i].mfe]],
              avg_duration_bars |->
                  Divide(Num(Sum([i \in 1..Len(ledger) |-> ledger[i].duration_bars])),
                         Num(total_trades)),
              total_commission |-> Sum([i \in 1..Len(ledger) |-> ledger[i].commission]),
              total_slippage |-> Sum([i \in 1..Len(ledger) |-> ledger[i].slippage])]

---------------------------------------------------------------------------
(* Inputs of run(): configuration, instrument, bars, signals *)

\* number of bars of the longest series
MaxBars == 2

\* BacktestConfig.initial_capital, in dollars
initial_capital == 10000

\* a CFD on an index: one contract per lot, quoted in whole points
IndexCFD ==
    [present |-> TRUE, name |-> "index", point |-> <<1, 1>>, spread |-> 20,
     trade_contract_size |-> 1, volume_min |-> Lots(<<1, 100>>),
     volume_max |-> Lots(<<100, 1>>), volume_step |-> Lots(<<1, 100>>)]

\* a contract of 100 units per lot
Contract100 ==
    [present |-> TRUE, name |-> "c100", point |-> <<1, 10>>, spread |-> 100,
     trade_contract_size |-> 100, volume_min |-> Lots(<<1, 100>>),
     volume_max |-> Lots(<<100, 1>>), volume_step |-> Lots(<<1, 100>>)]

\* the index of a series in order: bar k is stamped k
OrderedIndex == [i \in 1..MaxBars |-> i]

\* BacktestConfig() as it is constructed by default, and run() without
\* symbol_info over a series in order.  data is the series itself when the
\* caller holds one DataFrame to pass to run() more than once, a sequence of
\* rows [bar, signal]; it is empty when the bars are drawn as the loop
\* reaches them.
DefaultConfig ==
    [name |-> "default", initial_capital |-> Money(initial_capital),
     commission |-> 0, commission_pct |-> <<0, 1>>, slippage_pct |-> <<1, 100>>,
     leverage |-> 100, use_spread |-> TRUE, symbol_info |-> NoSymbolInfo,
     index |-> OrderedIndex, data |-> <<>>]

Configs ==
    { DefaultConfig,
      [DefaultConfig EXCEPT !.name = "index", !.symbol_info = IndexCFD,
                            !.slippage_pct = <<0, 1>>, !.commission = Money(1)],
      [DefaultConfig EXCEPT !.name = "frictionless", !.symbol_info = IndexCFD,
                            !.slippage_pct = <<0, 1>>, !.use_spread = FALSE],
      [DefaultConfig EXCEPT !.name = "tight", !.symbol_info = Contract100,
                            !.leverage = 10],
      [DefaultConfig EXCEPT !.name = "percent", !.slippage_pct = <<0, 1>>,
                            !.commission_pct = <<1, 100>>] }

\* the price levels the bars move between
Low == 90000

Mid == 100000

Up == 105000

High == 110000

Bars ==
    { [low |-> Mid,  high |-> Mid,  close |-> Mid],
      [low |-> Low,  high |-> Mid,  close |-> Mid],
      [low |-> Mid,  high |-> High, close |-> Mid],
      [low |-> Low,  high |-> High, close |-> Mid],
      [low |-> Mid,  high |-> Up,   close |-> Up],
      [low |-> Low,  high |-> Mid,  close |-> Low] }

\* distances of the stop and the target a strategy sets itself
OwnStop == 5000

OwnTarget == 10000

EntrySignal(t, type, price, sl, tp) ==
    [present |-> TRUE, timestamp |-> t, signal_type |-> type, price |-> price,
     stop_loss |-> sl, take_profit |-> tp, position_size |-> 0,
     reason |-> "signal"]

\* What signals_dict may hold for the bar stamped t: nothing, an entry that
\* leaves stop and target to manage_risk, an entry that sets them, or a
\* closing signal of the strategy; a signal is priced at the bar's close.
SignalsAt(t, b) ==
    { NoSignal,
      EntrySignal(t, "BUY", b.close, None, None),
      EntrySignal(t, "SELL", b.close, None, None),
      EntrySignal(t, "BUY", b.close, b.close - OwnStop, b.close + OwnTarget),
      EntrySignal(t, "SELL", b.close, b.close + OwnStop, b.close - OwnTarget),
      EntrySignal(t, "CLOSE_LONG", b.close, None, None) }

---------------------------------------------------------------------------
(* BacktestEngine.__init__ / _reset, and run() *)

\* a reset that leaves self.equity at zero until a position marks it
FreshZeroEquity(c) ==
    [current_balance |-> c.initial_capital, equity |-> 0,
     current_position |-> NoPosition, trades |-> <<>>,
     equity_curve |-> <<c.initial_capital>>,
     balance_curve |-> <<c.initial_capital>>, timestamps |-> <<>>,
     position_high |-> 0, position_low |-> Infinity]

\* a reset that starts the two curves empty
FreshNoInitialPoint(c) ==
    [current_balance |-> c.initial_capital, equity |-> c.initial_capital,
     current_position |-> NoPosition, trades |-> <<>>,
     equity_curve |-> <<>>, balance_curve |-> <<>>, timestamps |-> <<>>,
     position_high |-> 0, position_low |-> Infinity]

\* the state __init__ builds and _reset rebuilds
Fresh(c) ==
    [current_balance |-> c.initial_capital, equity |-> c.initial_capital,
     current_position |-> NoPosition, trades |-> <<>>,
     equity_curve |-> <<c.initial_capital>>,
     balance_curve |-> <<c.initial_capital>>, timestamps |-> <<>>,
     position_high |-> 0, position_low |-> Infinity]

NoResult == [present |-> FALSE]

InitEngine ==
    /\ cfg \in Configs
    /\ bar = NoBar
    /\ signal = NoSignal
    /\ timestamps = Fresh(cfg).timestamps
    /\ current_balance = Fresh(cfg).current_balance
    /\ equity = Fresh(cfg).equity
    /\ current_position = Fresh(cfg).current_position
    /\ trades = Fresh(cfg).trades
    /\ equity_curve = Fresh(cfg).equity_curve
    /\ balance_curve = Fresh(cfg).balance_curve
    /\ position_high = Fresh(cfg).position_high
    /\ position_low = Fresh(cfg).position_low
    /\ result = NoResult
    /\ log = <<>>
    /\ signals_seen = 0
    /\ strategy_log = <<>>

Init ==
    /\ InitEngine
    /\ pc = "idle"
    /\ call = NoCall
    /\ ret = 0

\* run(): self._reset(), then strategy.run(data) and the signal index
_reset ==
    /\ pc = "idle"
    /\ pc' = "loop"
    /\ timestamps' = Fresh(cfg).timestamps
    /\ current_balance' = Fresh(cfg).current_balance
    /\ equity' = Fresh(cfg).equity
    /\ current_position' = Fresh(cfg).current_position
    /\ trades' = Fresh(cfg).trades
    /\ equity_curve' = Fresh(cfg).equity_curve
    /\ balance_curve' = Fresh(cfg).balance_curve
    /\ position_high' = Fresh(cfg).position_high
    /\ position_low' = Fresh(cfg).position_low
    /\ UNCHANGED <<cfg, bar, signal, result, log, signals_seen, strategy_log,
                   call, ret>>

\* for i, (timestamp, bar) in enumerate(...): self.timestamps.append(timestamp)
NextBar ==
    /\ pc = "loop"
    /\ Len(timestamps) < MaxBars
    /\ cfg.data # <<>> => Len(timestamps) < Len(cfg.data)
    /\ \E b \in Bars :
          /\ bar' = b
          /\ signal' \in SignalsAt(cfg.index[Len(timestamps) + 1], b)
          /\ cfg.data # <<>> =>
                /\ b = cfg.data[Len(timestamps) + 1].bar
                /\ signal' = cfg.data[Len(timestamps) + 1].signal
    /\ signals_seen' = signals_seen + (IF signal'.present THEN 1 ELSE 0)
    /\ timestamps' = Append(timestamps, cfg.index[Len(timestamps) + 1])
    /\ pc' = "entry"
    /\ UNCHANGED <<cfg, current_balance, equity, current_position, trades,
                   equity_curve, balance_curve, position_high, position_low,
                   result, log, strategy_log, call, ret>>

\* the entry test without its second condition
EntryAllowedWhileOpen == signal.present

\* if timestamp in signals_dict and self.current_position is None: ...
EntryAllowed == signal.present /\ ~current_position.present

Entry ==
    /\ pc = "entry"
    /\ IF EntryAllowed /\ signal.signal_type \in {"BUY", "SELL"}
       THEN _open_position(signal, bar, cfg.symbol_info)
       ELSE UNCHANGED <<current_position, position_high, position_low, log,
                        strategy_log>>
    /\ pc' = "manage"
    /\ UNCHANGED <<cfg, bar, signal, timestamps, current_balance, equity, trades,
                   equity_curve, balance_curve, result, signals_seen, call, ret>>

\* a bar that books the open position's mark to market on the balance
ManageBookingUnrealized ==
    /\ pc = "manage"
    /\ IF current_position.present
       THEN LET exit_signal == check_exit_conditions(current_position, bar)
            IN  IF exit_signal.present
                THEN /\ _close_position(exit_signal, cfg.symbol_info)
                     /\ UNCHANGED <<position_high, position_low>>
                ELSE /\ _update_mae_mfe(bar)
                     /\ _update_equity(bar)
                     /\ current_balance' = equity'
                     /\ UNCHANGED <<current_position, trades, log>>
       ELSE UNCHANGED <<current_balance, equity, current_position, trades,
                        position_high, position_low, log>>
    /\ pc' = "record"
    /\ UNCHANGED <<cfg, bar, signal, timestamps, equity_curve, balance_curve,
                   result, signals_seen, strategy_log, call, ret>>

\* if self.current_position: exit or mark to market
Manage ==
    /\ pc = "manage"
    /\ IF current_position.present
       THEN LET exit_signal == check_exit_conditions(current_position, bar)
            IN  IF exit_signal.present
                THEN /\ _close_position(exit_signal, cfg.symbol_info)
                     /\ UNCHANGED <<position_high, position_low>>
                ELSE /\ _update_mae_mfe(bar)
                     /\ _update_equity(bar)
                     /\ UNCHANGED <<current_balance, current_position, trades,
                                    log>>
       ELSE UNCHANGED <<current_balance, equity, current_position, trades,
                        position_high, position_low, log>>
    /\ pc' = "record"
    /\ UNCHANGED <<cfg, bar, signal, timestamps, equity_curve, balance_curve,
                   result, signals_seen, strategy_log, call, ret>>

\* an end of bar that retries the bar's entry signal when the engine is Flat
RecordRetryingEntry ==
    /\ pc = "record"
    /\ balance_curve' = Append(balance_curve, current_balance)
    /\ equity_curve' = Append(equity_curve, equity)
    /\ signal' = NoSignal
    /\ pc' = "loop"
    /\ IF signal.present /\ signal.signal_type \in {"BUY", "SELL"}
          /\ ~current_position.present
       THEN _open_position(signal, bar, cfg.symbol_info)
       ELSE UNCHANGED <<current_position, position_high, position_low, log,
                        strategy_log>>
    /\ UNCHANGED <<cfg, bar, timestamps, current_balance, equity, trades,
                   result, signals_seen, call, ret>>

\* self.balance_curve.append(...); self.equity_curve.append(...)
Record ==
    /\ pc = "record"
    /\ balance_curve' = Append(balance_curve, current_balance)
    /\ equity_curve' = Append(equity_curve, equity)
    /\ signal' = NoSignal
    /\ pc' = "loop"
    /\ UNCHANGED <<cfg, bar, timestamps, current_balance, equity,
                   current_position, trades, position_high, position_low,
                   result, log, signals_seen, strategy_log, call, ret>>

\* the series has no more bars (it has at least one)
EndOfData ==
    /\ pc = "loop"
    /\ Len(timestamps) >= 1
    /\ cfg.data # <<>> => Len(timestamps) = Len(cfg.data)
    /\ pc' = "final"
    /\ UNCHANGED <<engineVars, call, ret>>

\* a closing Signal whose metadata names no reason
FinalExitSignalUntagged ==
    CloseSignal(CloseType(current_position), bar.close, "signal")

\* the Signal run() builds to close what is still open after the last bar
FinalExitSignal ==
    CloseSignal(CloseType(current_position), bar.close, "end_of_data")

\* an end of run() that computes the metrics before the forced close
FinishMetricsFirst ==
    /\ pc = "final"
    /\ LET after == IF current_position.present
                    THEN CloseOutcome(FinalExitSignal, cfg.symbol_info)
                    ELSE CloseOutcome(NoSignal, cfg.symbol_info)
       IN  /\ current_balance' = after.current_balance
           /\ log' = after.log
           /\ equity' = after.equity
           /\ trades' = after.trades
           /\ current_position' = after.current_position
           /\ result' =
                 [present |-> TRUE,
                  trades |-> after.trades,
                  index |-> Append(timestamps, timestamps[Len(timestamps)]),
                  equity_curve |-> equity_curve,
                  balance_curve |-> balance_curve,
                  drawdown_curve |-> _calculate_drawdown(equity_curve),
                  initial_capital |-> cfg.initial_capital,
                  final_capital |-> after.equity,
                  metrics |-> _calculate_metrics(trades, equity_curve, equity,
                                                 cfg.initial_capital)]
    /\ pc' = "done"
    /\ UNCHANGED <<cfg, bar, signal, timestamps, equity_curve, balance_curve,
                   position_high, position_low, signals_seen, strategy_log,
                   call, ret>>

\* after the loop: close what is still open at the final bar's close, then
\* build the curves and the BacktestResult
Finish ==
    /\ pc = "final"
    /\ LET after == IF current_position.present
                    THEN CloseOutcome(FinalExitSignal, cfg.symbol_info)
                    ELSE CloseOutcome(NoSignal, cfg.symbol_info)
       IN  /\ current_balance' = after.current_balance
           /\ log' = after.log
           /\ equity' = after.equity
           /\ trades' = after.trades
           /\ current_position' = after.current_position
           /\ result' =
                 [present |-> TRUE,
                  trades |-> after.trades,
                  index |-> Append(timestamps, timestamps[Len(timestamps)]),
                  equity_curve |-> equity_curve,
                  balance_curve |-> balance_curve,
                  drawdown_curve |-> _calculate_drawdown(equity_curve),
                  initial_capital |-> cfg.initial_capital,
                  final_capital |-> after.equity,
                  metrics |-> _calculate_metrics(after.trades, equity_curve,
                                                 after.equity, cfg.initial_capital)]
    /\ pc' = "done"
    /\ UNCHANGED <<cfg, bar, signal, timestamps, equity_curve, balance_curve,
                   position_high, position_low, signals_seen, strategy_log,
                   call, ret>>

\* a further call of _calculate_metrics on the engine run() has left
RecomputeMetrics ==
    /\ pc = "done"
    /\ ret' = _calculate_metrics(trades, equity_curve, equity, cfg.initial_capital)
    /\ pc' = "recomputed"
    /\ UNCHANGED <<engineVars, call>>

Next ==
    \/ _reset
    \/ NextBar
    \/ Entry
    \/ Manage
    \/ Record
    \/ EndOfData
    \/ Finish
    \/ RecomputeMetrics

Spec == Init /\ [][Next]_vars

---------------------------------------------------------------------------
(* A caller of _calculate_position_size *)

InitSizing ==
    /\ InitEngine
    /\ cfg = DefaultConfig
    /\ pc = "call"
    /\ call \in SizingCalls
    /\ ret = 0

Sizing ==
    /\ pc = "call"
    /\ ret' = _calculate_position_size(call.sig, call.current_price,
                                       call.account_balance, call.symbol_info)
    /\ strategy_log' = strategy_log \o
           SizingLog(call.sig, call.current_price, call.account_balance,
                     call.symbol_info)
    /\ pc' = "returned"
    /\ UNCHANGED <<cfg, bar, signal, timestamps, current_balance, equity,
                   current_position, trades, equity_curve, balance_curve,
                   position_high, position_low, result, log, signals_seen,
                   call>>

SpecSizing == InitSizing /\ [][Sizing]_vars

---------------------------------------------------------------------------
(* A caller of check_exit_conditions *)

\* positions entered at 100000 whose levels are each set or left None
ExitPositions ==
    { [NoPosition EXCEPT !.present = TRUE, !.entry_timestamp = 1,
                         !.entry_price = 100000, !.position_type = "LONG",
                         !.size = Lots(<<1, 100>>), !.stop_loss = sl,
                         !.take_profit = tp, !.trailing_stop = ts]
      : sl \in {None, 95000}, tp \in {None, 110000}, ts \in {None, 98000} }
    \cup
    { [NoPosition EXCEPT !.present = TRUE, !.entry_timestamp = 1,
                         !.entry_price = 100000, !.position_type = "SHORT",
                         !.size = Lots(<<1, 100>>), !.stop_loss = sl,
                         !.take_profit = tp, !.trailing_stop = ts]
      : sl \in {None, 105000}, tp \in {None, 90000}, ts \in {None, 102000} }

\* bars whose low and high fall on either side of each of those levels
ExitBars ==
    { [low |-> l, high |-> h, close |-> 100000]
      : l \in {89000, 94000, 97000, 100000},
        h \in {100000, 103000, 106000, 111000} }

ExitCalls == { [position |-> p, bar |-> b] : p \in ExitPositions, b \in ExitBars }

InitExit ==
    /\ InitEngine
    /\ cfg = DefaultConfig
    /\ pc = "call"
    /\ call \in ExitCalls
    /\ ret = NoSignal

Evaluate ==
    /\ pc = "call"
    /\ ret' = check_exit_conditions(call.position, call.bar)
    /\ pc' = "returned"
    /\ UNCHANGED <<engineVars, call>>

SpecExit == InitExit /\ [][Evaluate]_vars

---------------------------------------------------------------------------
(* A caller of Position.update_trailing_stop *)

\* a Position as the dataclass constructs it: no trailing stop, highest_price
\* 0.0, lowest_price float('inf')
TrailingPositions ==
    { [NoPosition EXCEPT !.present = TRUE, !.entry_timestamp = 1,
                         !.entry_price = 100000, !.position_type = t,
                         !.size = Lots(<<1, 100>>)]
      : t \in {"LONG", "SHORT"} }

TrailingPrices ==
    {90000, 94000, 97000, 100000, 103000, 106000, 110000, 115000}

TrailingPcts == { <<1, 50>>, <<1, 20>> }

\* the position, the percentage every call passes, and the last price passed
InitTrailing ==
    /\ InitEngine
    /\ cfg = DefaultConfig
    /\ pc = "call"
    /\ call \in { [position |-> p, trailing_pct |-> pct, current_price |-> 0]
                  : p \in TrailingPositions, pct \in TrailingPcts }
    /\ ret = 0

UpdateTrailing ==
    /\ pc = "call"
    /\ \E price \in TrailingPrices :
          call' = [call EXCEPT
                      !.position = update_trailing_stop(call.position, price,
                                                        call.trailing_pct),
                      !.current_price = price]
    /\ UNCHANGED <<engineVars, pc, ret>>

SpecTrailing == InitTrailing /\ [][UpdateTrailing]_vars

---------------------------------------------------------------------------
(* Two calls of run() on one engine, with the same series *)

RerunBars ==
    { [low |-> Mid, high |-> Mid,  close |-> Mid],
      [low |-> Mid, high |-> Up,   close |-> Up],
      [low |-> Low, high |-> High, close |-> Mid] }

RerunSignalsAt(t, b) ==
    { NoSignal,
      EntrySignal(t, "SELL", b.close, None, None),
      EntrySignal(t, "BUY", b.close, b.close - OwnStop, b.close + OwnTarget) }

RerunRowsAt(t) ==
    UNION { { [bar |-> b, signal |-> sig] : sig \in RerunSignalsAt(t, b) }
            : b \in RerunBars }

\* the series of one to MaxBars rows
RerunSeries ==
    UNION { { d \in [1..n -> UNION { RerunRowsAt(t) : t \in 1..n }] :
                 \A t \in 1..n : d[t] \in RerunRowsAt(t) }
            : n \in 1..MaxBars }

InitRerun ==
    /\ cfg \in { [c EXCEPT !.data = d] :
                   c \in {k \in Configs : k.name \in {"default", "index"}},
                   d \in RerunSeries }
    /\ bar = NoBar
    /\ signal = NoSignal
    /\ timestamps = Fresh(cfg).timestamps
    /\ current_balance = Fresh(cfg).current_balance
    /\ equity = Fresh(cfg).equity
    /\ current_position = Fresh(cfg).current_position
    /\ trades = Fresh(cfg).trades
    /\ equity_curve = Fresh(cfg).equity_curve
    /\ balance_curve = Fresh(cfg).balance_curve
    /\ position_high = Fresh(cfg).position_high
    /\ position_low = Fresh(cfg).position_low
    /\ result = NoResult
    /\ log = <<>>
    /\ signals_seen = 0
    /\ strategy_log = <<>>
    /\ pc = "idle"
    /\ call = NoCall
    /\ ret = NoResult

\* a second call of run() that starts from the balance the first one left
RerunKeepingBalance ==
    /\ pc = "done"
    /\ ~ret.present
    /\ ret' = result
    /\ result' = NoResult
    /\ pc' = "loop"
    /\ timestamps' = Fresh(cfg).timestamps
    /\ current_balance' = current_balance
    /\ equity' = equity
    /\ current_position' = Fresh(cfg).current_position
    /\ trades' = Fresh(cfg).trades
    /\ equity_curve' = Fresh(cfg).equity_curve
    /\ balance_curve' = Fresh(cfg).balance_curve
    /\ position_high' = Fresh(cfg).position_high
    /\ position_low' = Fresh(cfg).position_low
    /\ UNCHANGED <<cfg, bar, signal, log, signals_seen, strategy_log, call>>

\* the caller keeps the first BacktestResult and calls run() again on the
\* same engine: self._reset(), then the loop
Rerun ==
    /\ pc = "done"
    /\ ~ret.present
    /\ ret' = result
    /\ result' = NoResult
    /\ pc' = "loop"
    /\ timestamps' = Fresh(cfg).timestamps
    /\ current_balance' = Fresh(cfg).current_balance
    /\ equity' = Fresh(cfg).equity
    /\ current_position' = Fresh(cfg).current_position
    /\ trades' = Fresh(cfg).trades
    /\ equity_curve' = Fresh(cfg).equity_curve
    /\ balance_curve' = Fresh(cfg).balance_curve
    /\ position_high' = Fresh(cfg).position_high
    /\ position_low' = Fresh(cfg).position_low
    /\ UNCHANGED <<cfg, bar, signal, log, signals_seen, strategy_log, call>>

NextRerun ==
    \/ _reset
    \/ NextBar
    \/ Entry
    \/ Manage
    \/ Record
    \/ EndOfData
    \/ Finish
    \/ Rerun

SpecRerun == InitRerun /\ [][NextRerun]_vars

---------------------------------------------------------------------------
(* NYRangeBreakoutOptimized: TradingStrategy.run called twice on one instance *)

max_trades_per_day == 1            \* max_trades_per_day: int = 1

\* the trading days of a series
StrategyDays == {1, 2}

\* A row of the series as generate_signals sees it: its date, and what the
\* range, ATR and breakout tests make of it together with the row before.
StrategyRows ==
    { [date |-> d, breakout |-> k]
      : d \in StrategyDays, k \in {"NONE", "BULLISH", "BEARISH"} }

StrategySeries == UNION { [1..n -> StrategyRows] : n \in 1..MaxBars }

\* the loop of generate_signals from row i on
RECURSIVE GenerateFrom(_, _, _, _)
GenerateFrom(data, i, trades_today, signals) ==
    IF i > Len(data)
    THEN [signals |-> signals, trades_today |-> trades_today]
    ELSE IF \/ trades_today[data[i].date] >= max_trades_per_day
            \/ data[i].breakout = "NONE"
    THEN GenerateFrom(data, i + 1, trades_today, signals)
    ELSE GenerateFrom(data, i + 1,
                      [trades_today EXCEPT ![data[i].date] = @ + 1],
                      Append(signals,
                             [timestamp |-> i,
                              signal_type |-> IF data[i].breakout = "BULLISH"
                                              THEN "BUY" ELSE "SELL"]))

\* generate_signals: for i in range(1, len(data)), on self.trades_today
generate_signals(data, trades_today) ==
    GenerateFrom(data, 2, trades_today, <<>>)

\* a new strategy instance (self.trades_today = {}) and the data the caller
\* will pass to it
InitStrategy ==
    /\ InitEngine
    /\ cfg = DefaultConfig
    /\ pc = "idle"
    /\ call \in { [data |-> d, trades_today |-> [day \in StrategyDays |-> 0]]
                  : d \in StrategySeries }
    /\ ret = <<>>

\* TradingStrategy.run(data): the signal list is returned, the counters stay
\* on the instance
StrategyRun ==
    /\ pc \in {"idle", "ran"}
    /\ LET out == generate_signals(call.data, call.trades_today)
       IN  /\ call' = [call EXCEPT !.trades_today = out.trades_today]
           /\ ret' = Append(ret, out.signals)
    /\ pc' = IF pc = "idle" THEN "ran" ELSE "reran"
    /\ UNCHANGED engineVars

SpecStrategy == InitStrategy /\ [][StrategyRun]_vars

---------------------------------------------------------------------------
(* run() over a series whose index is not in order *)

\* an index in reverse order, and an index that repeats one timestamp
MalformedIndexes ==
    { [i \in 1..MaxBars |-> MaxBars + 1 - i], [i \in 1..MaxBars |-> 1] }

InitMalformed ==
    /\ cfg \in { [DefaultConfig EXCEPT !.index = ix] : ix \in MalformedIndexes }
    /\ bar = NoBar
    /\ signal = NoSignal
    /\ timestamps = Fresh(cfg).timestamps
    /\ current_balance = Fresh(cfg).current_balance
    /\ equity = Fresh(cfg).equity
    /\ current_position = Fresh(cfg).current_position
    /\ trades = Fresh(cfg).trades
    /\ equity_curve = Fresh(cfg).equity_curve
    /\ balance_curve = Fresh(cfg).balance_curve
    /\ position_high = Fresh(cfg).position_high
    /\ position_low = Fresh(cfg).position_low
    /\ result = NoResult
    /\ log = <<>>
    /\ signals_seen = 0
    /\ strategy_log = <<>>
    /\ pc = "idle"
    /\ call = NoCall
    /\ ret = 0

SpecMalformed == InitMalformed /\ [][Next]_vars

---------------------------------------------------------------------------
(* Properties *)

\* how often the logger was told msg
Logged(msg) == Cardinality({i \in 1..Len(log) : log[i] = msg})

RECURSIVE SumPnl(_)
SumPnl(ledger) ==
    IF ledger = <<>> THEN 0
    ELSE ledger[Len(ledger)].pnl + SumPnl(SubSeq(ledger, 1, Len(ledger) - 1))

IsEntry(sig) == sig.present /\ sig.signal_type \in {"BUY", "SELL"}

\* C1: during run() at most one Position is held: every position that was
\* opened is either the one held now or has become a Trade of the ledger, so
\* no position is ever replaced by another; and the step that handles the
\* entry signal of a bar arriving while a position is open changes neither the
\* open position (entry price, size, stops), nor the balance, nor the ledger.
C1_SinglePosition ==
    /\ [](Logged("opened") = Len(trades) + (IF current_position.present THEN 1 ELSE 0))
    /\ [][(pc = "entry" /\ IsEntry(signal) /\ current_position.present)
            => UNCHANGED <<current_position, current_balance, equity, trades,
                           position_high, position_low, log>>]_vars

\* an entry signal arrived on a bar after the one that opened the position,
\* and the entry step has handled it
C1_EntryWhileOpen ==
    /\ pc = "manage"
    /\ IsEntry(signal)
    /\ current_position.present
    /\ current_position.entry_timestamp < Len(timestamps)

\* C2: when run() has returned, final_capital is initial_capital plus the sum
\* of pnl (net of commission) over the returned ledger, the trade of the
\* end-of-data close included.
C2_CapitalIsSumOfPnl ==
    pc = "done" =>
        result.final_capital = result.initial_capital + SumPnl(result.trades)

\* a run that ended with the forced close of a losing position, after an
\* earlier trade, with commission charged
C2_EndedByForcedClose ==
    /\ pc = "done"
    /\ Len(result.trades) >= 2
    /\ result.trades[Len(result.trades)].exit_reason = "end_of_data"
    /\ result.trades[Len(result.trades)].commission > 0
    /\ result.trades[Len(result.trades)].pnl < 0
    /\ result.final_capital # result.initial_capital

Clamp(x, lo, hi) == Max(lo, Min(x, hi))

\* The instrument, the stop and the stop distance of a direct sizing call.
C3_Instrument ==
    IF call.symbol_info.present THEN call.symbol_info ELSE DefaultSymbolInfo

C3_Stop ==
    IF call.sig.stop_loss # None THEN call.sig.stop_loss
    ELSE IF call.sig.signal_type = "BUY"
    THEN call.current_price - Pct(call.current_price, fixed_stop_pct)
    ELSE call.current_price + Pct(call.current_price, fixed_stop_pct)

C3_Distance == Abs(call.current_price - C3_Stop)

\* floor and ceiling of k * B * r / (|E - S| * C), in units of 1/LotScale lot
C3_IdealFloor(k) ==
    FloorRatio(k * call.account_balance * risk_per_trade[1],
               risk_per_trade[2] * C3_Instrument.trade_contract_size, C3_Distance)

C3_IdealCeil(k) ==
    CeilRatio(k * call.account_balance * risk_per_trade[1],
              risk_per_trade[2] * C3_Instrument.trade_contract_size, C3_Distance)

\* C3, as the code has it: for every instrument, balance, entry E and stop
\* S # E, the lots returned by _calculate_position_size differ from
\* B * r / (|E - S| * C) limited to [volume_min, volume_max] by at most half a
\* volume_step plus half a hundredth of a lot (the rounding to the step and the
\* rounding to two decimals); for a volume_step of 0.01 lot or more that is
\* within one volume_step of the limited value.
C3_SizeNearLimitedIdeal ==
    (pc = "returned" /\ C3_Distance # 0) =>
        LET info == C3_Instrument
            tol2 == info.volume_step + ExactDiv(LotScale, 10 ^ RoundDecimals)
            lo2  == Clamp(C3_IdealFloor(2), 2 * info.volume_min, 2 * info.volume_max)
            hi2  == Clamp(C3_IdealCeil(2), 2 * info.volume_min, 2 * info.volume_max)
            lo   == Clamp(C3_IdealFloor(1), info.volume_min, info.volume_max)
            hi   == Clamp(C3_IdealCeil(1), info.volume_min, info.volume_max)
        IN  /\ 2 * ret - tol2 <= hi2
            /\ lo2 <= 2 * ret + tol2
            /\ info.volume_step * 10 ^ RoundDecimals >= LotScale =>
                  /\ ret - info.volume_step <= hi
                  /\ lo <= ret + info.volume_step

\* C3 as stated: the returned lots are within one volume_step of
\* B * r / (|E - S| * C) itself.
C3_SizeNearIdeal ==
    (pc = "returned" /\ C3_Distance # 0) =>
        /\ ret - C3_Instrument.volume_step <= C3_IdealCeil(1)
        /\ C3_IdealFloor(1) <= ret + C3_Instrument.volume_step

\* the metal case of test_position_sizing.py: balance 10000, entry 2650,
\* stop 2616, sized 0.06 lot, strictly between volume_min and volume_max
C3_MetalSized ==
    /\ pc = "returned"
    /\ call.symbol_info = Metal
    /\ call.account_balance = Money(10000)
    /\ C3_Distance = 34
    /\ ret = Lots(<<6, 100>>)

\* C4: when run() is given a symbol_info, every position it opens is sized as
\* _calculate_position_size sizes it for that instrument (stated at the point
\* where the entry step of the bar has just opened the position).
C4_SizedForInstrument ==
    (/\ pc = "manage"
     /\ cfg.symbol_info.present
     /\ current_position.present
     /\ current_position.entry_timestamp = Len(timestamps))
    => current_position.size =
           _calculate_position_size(signal, bar.close, current_balance,
                                    cfg.symbol_info)

\* The breaches of a position's three levels by the bar of a direct call of
\* check_exit_conditions; a level that is not set is never breached.
C5_AtOrBelow(level) == level # None /\ call.bar.low <= level

C5_AtOrAbove(level) == level # None /\ call.bar.high >= level

C5_StopBreached ==
    IF call.position.position_type = "LONG"
    THEN C5_AtOrBelow(call.position.stop_loss)
    ELSE C5_AtOrAbove(call.position.stop_loss)

C5_TrailingBreached ==
    IF call.position.position_type = "LONG"
    THEN C5_AtOrBelow(call.position.trailing_stop)
    ELSE C5_AtOrAbove(call.position.trailing_stop)

C5_TargetBreached ==
    IF call.position.position_type = "LONG"
    THEN C5_AtOrAbove(call.position.take_profit)
    ELSE C5_AtOrBelow(call.position.take_profit)

C5_Closes(reason, level) ==
    /\ ret.present
    /\ ret.signal_type = (IF call.position.position_type = "LONG"
                          THEN "CLOSE_LONG" ELSE "CLOSE_SHORT")
    /\ ret.reason = reason
    /\ ret.price = level

\* C5, as the code has it: check_exit_conditions tests hard stop-loss, then
\* take-profit, then trailing stop, and the first breached condition in that
\* order wins, closing at the breached level: a breached stop-loss yields
\* stop_loss whatever else is breached; a bar that breaches both the trailing
\* stop and the take-profit (and not the stop-loss) yields take_profit priced
\* at the take-profit; the trailing stop closes only when neither of the
\* others is breached; with nothing breached there is no signal.
C5_StopTargetTrailing ==
    pc = "returned" =>
        IF C5_StopBreached
        THEN C5_Closes("stop_loss", call.position.stop_loss)
        ELSE IF C5_TargetBreached
        THEN C5_Closes("take_profit", call.position.take_profit)
        ELSE IF C5_TrailingBreached
        THEN C5_Closes("trailing_stop", call.position.trailing_stop)
        ELSE ~ret.present

\* C5 as stated: the order is stop-loss, trailing stop, take-profit.
C5_StopTrailingTarget ==
    pc = "returned" =>
        IF C5_StopBreached
        THEN C5_Closes("stop_loss", call.position.stop_loss)
        ELSE IF C5_TrailingBreached
        THEN C5_Closes("trailing_stop", call.position.trailing_stop)
        ELSE IF C5_TargetBreached
        THEN C5_Closes("take_profit", call.position.take_profit)
        ELSE ~ret.present

\* all three levels set, and the bar breaches the trailing stop and the
\* take-profit but not the stop-loss
C5_TrailingAndTargetBreached ==
    /\ pc = "returned"
    /\ call.position.stop_loss # None
    /\ call.position.take_profit # None
    /\ call.position.trailing_stop # None
    /\ ~C5_StopBreached
    /\ C5_TrailingBreached
    /\ C5_TargetBreached
    /\ ret.present

\* The open position's stop-loss is reached by the current bar.
C6_StopReached ==
    /\ current_position.present
    /\ current_position.stop_loss # None
    /\ IF current_position.position_type = "LONG"
       THEN bar.low <= current_position.stop_loss
       ELSE bar.high >= current_position.stop_loss

\* what the configuration takes from a closing price: slippage_pct of it, and
\* the spread when use_spread is set and run() was given a symbol_info
C6_ClosingCost(price) ==
    Pct(price, cfg.slippage_pct)
    + (IF cfg.use_spread /\ cfg.symbol_info.present
       THEN ExactDiv(cfg.symbol_info.spread * cfg.symbol_info.point[1],
                     cfg.symbol_info.point[2])
       ELSE 0)

C6_LastTrade == trades'[Len(trades')]

\* C6, as the code has it: when the bar's low is at or below a LONG
\* position's stop-loss (its high at or above a SHORT position's), wherever
\* the bar closes, the position is closed on that bar with exit reason
\* stop_loss; the trade's exit price is the stop level made worse by slippage
\* and spread (lower for LONG, higher for SHORT), not the bar close, and its
\* pnl is (exit price - entry price) * size - commission for LONG, negated
\* for SHORT.  The exit price is the stop level itself exactly when slippage
\* and spread are zero.
C6_StopLossExit ==
    [][(pc = "manage" /\ C6_StopReached) =>
          LET pos  == current_position
              stop == pos.stop_loss
              fill == IF pos.position_type = "LONG"
                      THEN stop - C6_ClosingCost(stop)
                      ELSE stop + C6_ClosingCost(stop)
              t    == C6_LastTrade
          IN  /\ ~current_position'.present
              /\ trades' = Append(trades, t)
              /\ t.exit_time = Len(timestamps)
              /\ t.exit_reason = "stop_loss"
              /\ t.exit_price = fill
              /\ (t.exit_price = stop) <=> (C6_ClosingCost(stop) = 0)
              /\ t.pnl = (IF pos.position_type = "LONG"
                          THEN (fill - pos.entry_price) * pos.size
                          ELSE (pos.entry_price - fill) * pos.size)
                         - t.commission
    ]_vars

\* C6 as stated: the exit price equals the stop level and the pnl is
\* (stop - entry) * size - commission.
C6_ExitAtStopLevel ==
    [][(pc = "manage" /\ C6_StopReached) =>
          LET pos  == current_position
              stop == pos.stop_loss
              t    == C6_LastTrade
          IN  /\ ~current_position'.present
              /\ trades' = Append(trades, t)
              /\ t.exit_reason = "stop_loss"
              /\ t.exit_price = stop
              /\ t.pnl = (IF pos.position_type = "LONG"
                          THEN (stop - pos.entry_price) * pos.size
                          ELSE (pos.entry_price - stop) * pos.size)
                         - t.commission
    ]_vars

\* a LONG position opened on an earlier bar has just been stopped out by a
\* bar that dipped to the stop and closed above it
C6_StoppedAboveClose ==
    /\ pc = "record"
    /\ Len(trades) >= 1
    /\ trades[Len(trades)].exit_reason = "stop_loss"
    /\ trades[Len(trades)].trade_type = "LONG"
    /\ trades[Len(trades)].exit_time = Len(timestamps)
    /\ trades[Len(trades)].entry_time < Len(timestamps)
    /\ bar.low <= trades[Len(trades)].stop_loss
    /\ bar.close > trades[Len(trades)].stop_loss

NoEndOfDataTrade(ledger) ==
    \A i \in 1..Len(ledger) : ledger[i].exit_reason # "end_of_data"

\* C7: after run() has returned no position is open.  A position still open
\* after the last bar is closed exactly once, by a closing signal priced at
\* the final bar's close (the fill is that price after slippage and spread)
\* with exit reason end_of_data, stamped with the final bar, and its Trade is
\* the last entry of the returned ledger; if no position is open after the
\* last bar the ledger is returned as it is and holds no end_of_data trade.
C7_ForcedClose ==
    /\ [](pc = "done" => ~current_position.present)
    /\ [][pc = "final" =>
            /\ ~current_position'.present
            /\ result'.trades = trades'
            /\ NoEndOfDataTrade(trades)
            /\ IF current_position.present
               THEN LET t   == trades'[Len(trades')]
                        pos == current_position
                    IN  /\ trades' = Append(trades, t)
                        /\ t.exit_reason = "end_of_data"
                        /\ t.exit_time = timestamps[Len(timestamps)]
                        /\ t.entry_price = pos.entry_price
                        /\ t.size = pos.size
                        /\ t.exit_price =
                              IF pos.position_type = "LONG"
                              THEN bar.close - C6_ClosingCost(bar.close)
                              ELSE bar.close + C6_ClosingCost(bar.close)
                        /\ t.slippage = Abs(t.exit_price - bar.close) * pos.size
               ELSE trades' = trades
       ]_vars

\* a run has returned whose last trade is the forced close, filled away from
\* the final bar's close by the costs, after an earlier trade
C7_ClosedAtEndOfData ==
    /\ pc = "done"
    /\ Len(result.trades) >= 2
    /\ result.trades[Len(result.trades)].exit_reason = "end_of_data"
    /\ result.trades[Len(result.trades)].exit_price # bar.close
    /\ ~current_position.present

\* The entry the engine attempts for the signal of the current bar: the fill
\* price and the size it asks the margin for.
C8_Attempt ==
    LET managed == manage_risk(signal, bar.close, current_balance, NoSymbolInfo)
    IN  [price |-> OpenFill(managed, cfg.symbol_info),
         size  |-> managed.position_size]

\* price * size * contract_size / leverage > 0.9 * balance, cross-multiplied
\* (the leverage is a multiple of ten)
C8_MarginExceeds(price, size, balance) ==
    price * size * (IF cfg.symbol_info.present
                    THEN cfg.symbol_info.trade_contract_size ELSE 1)
        > 9 * balance * ExactDiv(cfg.leverage, 10)

\* C8: an entry whose required margin price * size * contract_size / leverage
\* exceeds 0.9 * current balance is refused: no position is opened, balance,
\* equity and ledger are unchanged, and the run goes on with the bar; an entry
\* whose required margin is at most 0.9 * balance opens the position with that
\* price and size.
C8_MarginGate ==
    [][(pc = "entry" /\ IsEntry(signal) /\ ~current_position.present) =>
          /\ pc' = "manage"
          /\ UNCHANGED <<current_balance, equity, trades>>
          /\ IF C8_MarginExceeds(C8_Attempt.price, C8_Attempt.size, current_balance)
             THEN /\ UNCHANGED current_position
                  /\ log' = Append(log, "insufficient_margin")
             ELSE /\ current_position'.present
                  /\ current_position'.entry_price = C8_Attempt.price
                  /\ current_position'.size = C8_Attempt.size
    ]_vars

\* an entry was refused for its margin on an earlier bar, and the entry of
\* the current bar, which meets the margin condition, has opened a position
C8_OpenedAfterRefusal ==
    /\ pc = "manage"
    /\ Logged("insufficient_margin") >= 1
    /\ log[Len(log)] = "opened"
    /\ current_position.present
    /\ current_position.entry_timestamp = Len(timestamps)
    /\ current_balance = cfg.initial_capital
    /\ trades = <<>>

\* equity sets a new running high at point i of the returned curve
C9_NewHigh(i) ==
    \A j \in 1..i : result.equity_curve[j] <= result.equity_curve[i]

\* C9: every point of the returned drawdown curve, the fraction
\* (equity - running max) / running max, has a positive denominator and a
\* numerator <= 0, and the numerator is 0 wherever equity sets a new running
\* high, the initial point included.
C9_DrawdownNonPositive ==
    pc = "done" =>
        /\ Len(result.drawdown_curve) = Len(result.equity_curve)
        /\ \A i \in 1..Len(result.drawdown_curve) :
              /\ result.drawdown_curve[i][2] > 0
              /\ result.drawdown_curve[i][1] <= 0
              /\ C9_NewHigh(i) => result.drawdown_curve[i][1] = 0
        /\ result.drawdown_curve[1][1] = 0

\* a run whose equity rose above the initial capital and then fell below
\* that high
C9_HighThenDrawdown ==
    /\ pc = "done"
    /\ \E i \in 2..Len(result.equity_curve) :
          /\ result.equity_curve[i] > result.equity_curve[1]
          /\ C9_NewHigh(i)
          /\ \E j \in (i + 1)..Len(result.equity_curve) :
                result.drawdown_curve[j][1] < 0

\* the bars the loop has finished with
C10_BarsRecorded ==
    IF pc \in {"entry", "manage", "record"}
    THEN Len(timestamps) - 1 ELSE Len(timestamps)

\* C10: the equity curve and the balance curve start with the initial-capital
\* point and gain exactly one point per bar, whatever happened to the
\* position on that bar; so for a series of N >= 1 bars the returned equity,
\* balance and drawdown curves (and their index) each have exactly N + 1
\* points.
C10_CurveLengths ==
    /\ pc # "idle" =>
          /\ Len(equity_curve) = C10_BarsRecorded + 1
          /\ Len(balance_curve) = C10_BarsRecorded + 1
          /\ equity_curve[1] = cfg.initial_capital
          /\ balance_curve[1] = cfg.initial_capital
    /\ pc = "done" =>
          /\ Len(timestamps) >= 1
          /\ Len(result.equity_curve) = Len(timestamps) + 1
          /\ Len(result.balance_curve) = Len(timestamps) + 1
          /\ Len(result.drawdown_curve) = Len(timestamps) + 1
          /\ Len(result.index) = Len(timestamps) + 1

\* a run over the longest series has returned, with an entry refused on one
\* bar and a position opened and closed on another
C10_ReturnedCurves ==
    /\ pc = "done"
    /\ Len(timestamps) = MaxBars
    /\ Logged("insufficient_margin") >= 1
    /\ Logged("opened") >= 1
    /\ Len(result.trades) >= 1

AllEqual(curve, v) == \A i \in 1..Len(curve) : curve[i] = v

\* C11: as long as the strategy has emitted no signal, the run is Flat with
\* an empty ledger and balance, equity and every point of both curves equal
\* to initial_capital; so a run over a series without signals returns an
\* empty ledger, final_capital = initial_capital and curves that equal
\* initial_capital at every point.
C11_FlatWithoutSignals ==
    signals_seen = 0 =>
        /\ ~current_position.present
        /\ trades = <<>>
        /\ current_balance = cfg.initial_capital
        /\ equity = cfg.initial_capital
        /\ AllEqual(balance_curve, cfg.initial_capital)
        /\ AllEqual(equity_curve, cfg.initial_capital)
        /\ pc = "done" =>
              /\ result.trades = <<>>
              /\ result.final_capital = result.initial_capital
              /\ Len(result.equity_curve) = Len(timestamps) + 1
              /\ AllEqual(result.balance_curve, result.initial_capital)
              /\ AllEqual(result.equity_curve, result.initial_capital)

\* a run over the longest series, none of whose bars carried a signal, has
\* returned
C11_ReturnedWithoutSignals ==
    /\ pc = "done"
    /\ signals_seen = 0
    /\ Len(timestamps) = MaxBars
    /\ result.present

C12_Guarded == {"profit_factor", "avg_win", "avg_loss", "avg_risk_reward",
                "recovery_factor", "calmar_ratio"}

\* C12: the metrics of a run with an empty ledger are exactly
\* {total_trades: 0}; with a non-empty ledger none of profit_factor, avg_win,
\* avg_loss, avg_risk_reward, recovery_factor and calmar_ratio divides by
\* zero: profit_factor is +infinity when the gross loss is zero, and the
\* others are 0 when their denominator (number of winners, number of
\* losers, average loss, maximum drawdown) is zero.
C12_GuardedMetrics ==
    pc = "done" =>
        LET m == result.metrics
        IN  IF result.trades = <<>>
            THEN DOMAIN m = {"total_trades"} /\ m.total_trades = 0
            ELSE /\ m.total_trades = Len(result.trades)
                 /\ \A key \in C12_Guarded : m[key].kind \in {"value", "inf"}
                 /\ m.profit_factor.kind = "inf" <=> m.gross_loss = 0
                 /\ m.winning_trades = 0 => m.avg_win = Num(0)
                 /\ m.losing_trades = 0 => m.avg_loss = Num(0)
                 /\ m.losing_trades > 0 =>
                        m.avg_loss = Divide(Num(m.gross_loss), Num(m.losing_trades))
                 /\ IsZero(m.avg_loss) => m.avg_risk_reward = Num(0)
                 /\ IsZero(m.max_drawdown) =>
                        m.recovery_factor = Num(0) /\ m.calmar_ratio = Num(0)

\* a run has returned a ledger without a losing trade, whose profit factor
\* and average loss have no denominator
C12_NoLosingTrade ==
    /\ pc = "done"
    /\ result.trades # <<>>
    /\ result.metrics.losing_trades = 0
    /\ result.metrics.profit_factor = Inf

C14_SteppedAndLimited ==
    (pc = "returned" /\ C3_Distance # 0) =>
        /\ C3_Instrument.volume_min <= ret
        /\ ret <= C3_Instrument.volume_max
        /\ ret % C3_Instrument.volume_step = 0

\* the documented default instrument, passed explicitly: point 0.00001,
\* contract size 100000, volume_min 0.01, volume_max 100, volume_step 0.01
C15_Documented ==
    [present |-> TRUE, name |-> "explicit", point |-> <<1, 100000>>,
     spread |-> 0, trade_contract_size |-> 100000,
     volume_min |-> 10, volume_max |-> 100000, volume_step |-> 10]

C15_Warnings ==
    Cardinality({i \in 1..Len(strategy_log) :
                    strategy_log[i] = "symbol_info_missing"})

\* C15: a direct sizing call without symbol_info returns a size, the same
\* size as the call that passes the documented default instrument
\* explicitly, and logs the missing-metadata warning once for that call; a
\* call that passes a symbol_info logs no such warning.
C15_DefaultInstrument ==
    pc = "returned" =>
        IF call.symbol_info.present
        THEN C15_Warnings = 0
        ELSE /\ ret = _calculate_position_size(call.sig, call.current_price,
                                               call.account_balance, C15_Documented)
             /\ C15_Warnings = 1
             /\ strategy_log[1] = "symbol_info_missing"

\* a call without symbol_info has returned a size strictly between the
\* default limits
C15_SizedWithoutSymbolInfo ==
    /\ pc = "returned"
    /\ ~call.symbol_info.present
    /\ C3_Distance = 1
    /\ ret > 10
    /\ ret < 100000

\* the spread term of a fill: spread points times point size when spread
\* modelling is enabled and run() was given a symbol_info, else zero
C16_SpreadTerm ==
    IF cfg.use_spread /\ cfg.symbol_info.present
    THEN ExactDiv(cfg.symbol_info.spread * cfg.symbol_info.point[1],
                  cfg.symbol_info.point[2])
    ELSE 0

\* the price of the signal that closes the position in this step: the level
\* check_exit_conditions reports, or the last close at the end of the data
C16_ClosePrice ==
    IF pc = "manage"
    THEN check_exit_conditions(current_position, bar).price
    ELSE bar.close

C16_Worsened(price, fill, pays_up) ==
    LET moved == Pct(price, cfg.slippage_pct) + C16_SpreadTerm
    IN  /\ fill = IF pays_up THEN price + moved ELSE price - moved
        /\ IF pays_up THEN fill >= price ELSE fill <= price
        /\ ~cfg.use_spread =>
              fill = IF pays_up THEN price + Pct(price, cfg.slippage_pct)
                     ELSE price - Pct(price, cfg.slippage_pct)

\* C16: the entry price of every position opened is the signal price moved
\* by price * slippage_pct plus the spread term, upwards for BUY and
\* downwards for SELL; the exit price of every trade closed is the closing
\* signal's price moved the same way, downwards for CLOSE_LONG and upwards
\* for CLOSE_SHORT; the spread term is zero unless spread modelling is
\* enabled and a symbol_info was given.
C16_FillsWorsen ==
    [][/\ (~current_position.present /\ current_position'.present) =>
              C16_Worsened(signal.price, current_position'.entry_price,
                           signal.signal_type = "BUY")
       /\ (current_position.present /\ ~current_position'.present) =>
              C16_Worsened(C16_ClosePrice, trades'[Len(trades')].exit_price,
                           current_position.position_type = "SHORT")
    ]_vars

\* a SELL has just been filled below its signal price under the
\* configuration that has both slippage and a spread of 10 price units
C16_SellFilledBelow ==
    /\ pc = "manage"
    /\ current_position.present
    /\ current_position.position_type = "SHORT"
    /\ cfg.name = "tight"
    /\ current_position.entry_timestamp = Len(timestamps)
    /\ current_position.entry_price
         = signal.price - Pct(signal.price, cfg.slippage_pct) - 10

\* C17: in every step that closes the position, the Trade appended has
\* pnl = gross - commission with gross = (exit fill - entry fill) * size for
\* LONG and (entry fill - exit fill) * size for SHORT and commission =
\* 2 * fixed commission + (entry + exit) * size * commission_pct; the balance
\* grows by exactly that pnl and equity becomes the new balance.
C17_CloseAccounting ==
    [][(current_position.present /\ ~current_position'.present) =>
          LET pos   == current_position
              t     == trades'[Len(trades')]
              gross == IF pos.position_type = "LONG"
                       THEN (t.exit_price - pos.entry_price) * pos.size
                       ELSE (pos.entry_price - t.exit_price) * pos.size
              fee   == 2 * cfg.commission
                       + ExactDiv((pos.entry_price + t.exit_price) * pos.size
                                    * cfg.commission_pct[1],
                                  cfg.commission_pct[2])
          IN  /\ t.entry_price = pos.entry_price
              /\ t.size = pos.size
              /\ t.commission = fee
              /\ t.pnl = gross - fee
              /\ current_balance' = current_balance + t.pnl
              /\ equity' = current_balance'
    ]_vars

\* a position has just been closed at a loss under the configuration that
\* charges a percentage commission, and the balance fell by gross loss plus
\* commission
C17_ClosedWithCommission ==
    /\ pc = "record"
    /\ cfg.name = "percent"
    /\ Len(trades) = 1
    /\ trades[1].exit_time = Len(timestamps)
    /\ trades[1].commission > 0
    /\ trades[1].pnl < 0
    /\ current_balance = cfg.initial_capital + trades[1].pnl
    /\ equity = current_balance

\* C18: a step that takes the engine from Open to Flat appends exactly one
\* Trade, built from the position it discards, and every other step leaves
\* the ledger as it is; so the ledger is as long as the number of closes, and
\* it is in chronological order: each trade exits no earlier than it enters
\* and enters no earlier than the trade before it exits.
C18_LedgerAppendOnly ==
    /\ [](/\ Len(trades) = Logged("closed")
          /\ \A i \in 1..Len(trades) :
                /\ trades[i].entry_time <= trades[i].exit_time
                /\ i > 1 => trades[i].entry_time >= trades[i - 1].exit_time)
    /\ [][IF current_position.present /\ ~current_position'.present
          THEN /\ Len(trades') = Len(trades) + 1
               /\ SubSeq(trades', 1, Len(trades)) = trades
               /\ trades'[Len(trades')].entry_time = current_position.entry_timestamp
               /\ trades'[Len(trades')].entry_price = current_position.entry_price
          ELSE trades' = trades
         ]_vars

\* a second position was opened after the first trade was closed, and has
\* been closed in turn
C18_TwoTrades ==
    /\ Len(trades) = 2
    /\ ~current_position.present
    /\ trades[2].entry_time > trades[1].exit_time

C20_TrailingStopFollows ==
    (pc = "record" /\ current_position.present /\ use_trailing_stop) =>
        /\ current_position.trailing_stop # None
        /\ current_position.entry_timestamp = Len(timestamps) =>
              current_position.trailing_stop
                = IF current_position.position_type = "LONG"
                  THEN bar.high - Pct(bar.high, trailing_stop_pct)
                  ELSE bar.low + Pct(bar.low, trailing_stop_pct)

\* C21: a call of update_trailing_stop never loosens a trailing stop that is
\* set (it does not fall for a LONG position, does not rise for a SHORT one),
\* and a call with a price that is not a new favourable extreme changes
\* nothing of the position.
C21_OnlyTightens ==
    [][LET before == call.position
           after  == call'.position
           price  == call'.current_price
       IN  /\ before.trailing_stop # None =>
                  /\ after.trailing_stop # None
                  /\ IF before.position_type = "LONG"
                     THEN after.trailing_stop >= before.trailing_stop
                     ELSE after.trailing_stop <= before.trailing_stop
           /\ (IF before.position_type = "LONG"
               THEN price <= before.highest_price
               ELSE price >= before.lowest_price) => after = before
    ]_vars

\* a LONG position whose stop trails a high of 110000 by 2% has just been
\* passed a lower price
C21_LowerPriceAfterHigh ==
    /\ pc = "call"
    /\ call.position.position_type = "LONG"
    /\ call.trailing_pct = <<1, 50>>
    /\ call.position.highest_price = 110000
    /\ call.position.trailing_stop = 107800
    /\ call.current_price = 97000

C23_Increasing(index) ==
    \A i, j \in 1..Len(index) : i < j => index[i] < index[j]

\* C23: when the index of the series given to run() is not strictly
\* increasing, run() stops before the bar loop: no bar is processed, no
\* position is opened, no curve point is appended and nothing is returned.
C23_UnorderedRejected ==
    ~C23_Increasing(cfg.index) =>
        /\ timestamps = <<>>
        /\ ~current_position.present
        /\ trades = <<>>
        /\ Len(equity_curve) = 1
        /\ Len(balance_curve) = 1
        /\ ~result.present

\* C24: a second run() on the same engine starts from balance = equity =
\* initial_capital, no position, an empty ledger and one-point curves, and
\* with the same series it returns the BacktestResult the first run
\* returned (ledger, curves, metrics, final_capital); the first result,
\* which the caller holds, is not changed by the second run.
C24_SecondRunIdentical ==
    /\ []((pc = "done" /\ ret.present) => result = ret)
    /\ [][/\ ret.present => ret' = ret
          /\ (pc = "done" /\ pc' = "loop") =>
                /\ current_balance' = cfg.initial_capital
                /\ equity' = cfg.initial_capital
                /\ ~current_position'.present
                /\ trades' = <<>>
                /\ equity_curve' = <<cfg.initial_capital>>
                /\ balance_curve' = <<cfg.initial_capital>>
                /\ timestamps' = <<>>
         ]_vars

\* the second of two runs over the same series has returned, and both ended
\* with a different capital than they started with
C24_SecondRunReturned ==
    /\ pc = "done"
    /\ ret.present
    /\ Len(ret.trades) >= 1
    /\ ret.final_capital # ret.initial_capital
    /\ result.final_capital = ret.final_capital

\* C25: the second run() of a range-breakout strategy instance over the same
\* data returns the signal list the first run returned.
C25_SameSignalsBothRuns ==
    pc = "reran" => ret[2] = ret[1]

\* no slippage, no spread term and no commission
C26_NoCosts ==
    /\ cfg.slippage_pct[1] = 0
    /\ C16_SpreadTerm = 0
    /\ cfg.commission = 0
    /\ cfg.commission_pct[1] = 0

\* C26: when a position is closed at its stop-loss with zero slippage,
\* spread and commission, the loss of the Trade, and the fall of the
\* balance, is the risk the calculator sized it for: lots * |entry - stop| * C
\* with C the contract size the calculator used.
C26_LossEqualsSizedRisk ==
    [][(pc = "manage" /\ C6_StopReached /\ C26_NoCosts) =>
          LET pos  == current_position
              t    == trades'[Len(trades')]
              C    == DefaultSymbolInfo.trade_contract_size
              loss == 0 - t.pnl
          IN  /\ current_balance - current_balance' = loss
              /\ loss % C = 0
              /\ loss \div C = pos.size * Abs(pos.entry_price - pos.stop_loss)
    ]_vars

\* unrealized PnL of the open position at a price
C27_Unrealized(price) ==
    IF current_position.position_type = "LONG"
    THEN (price - current_position.entry_price) * current_position.size
    ELSE (current_position.entry_price - price) * current_position.size

\* C27: whenever no position is open, equity equals the balance; and the
\* equity point recorded at the end of a bar equals the balance point
\* recorded for that bar when the engine is Flat, and balance plus the
\* unrealized PnL at the bar's close when a position is open.
C27_EquityTracksBalance ==
    /\ [](~current_position.present => equity = current_balance)
    /\ [][pc = "record" =>
             LET e == equity_curve'[Len(equity_curve')]
                 b == balance_curve'[Len(balance_curve')]
             IN  /\ Len(equity_curve') = Len(equity_curve) + 1
                 /\ Len(balance_curve') = Len(balance_curve) + 1
                 /\ b = current_balance
                 /\ IF current_position.present
                    THEN e = b + C27_Unrealized(bar.close)
                    ELSE e = b
         ]_vars

\* a bar has been recorded with a position open whose unrealized PnL at the
\* close is negative
C27_RecordedOpenAtLoss ==
    /\ pc = "loop"
    /\ current_position.present
    /\ Len(equity_curve) = Len(timestamps) + 1
    /\ equity_curve[Len(equity_curve)] < balance_curve[Len(balance_curve)]
    /\ equity_curve[Len(equity_curve)]
         = current_balance + C27_Unrealized(bar.close)

\* C28: the low tracked for a LONG trade's MAE covers the exit bar too: when
\* a LONG position is closed at its stop-loss, entry * (1 + MAE), the lowest
\* price the trade records, is at or below the low of the exit bar and at or
\* below the stop price.
C28_ExcursionCoversExitBar ==
    [][(/\ pc = "manage"
        /\ C6_StopReached
        /\ current_position.position_type = "LONG") =>
          LET pos == current_position
              t   == trades'[Len(trades')]
              tracked_low == pos.entry_price + t.mae[1]
          IN  /\ t.mae[2] = pos.entry_price
              /\ tracked_low <= bar.low
              /\ tracked_low <= pos.stop_loss
    ]_vars

\* C29: in every returned BacktestResult the last point of the equity curve
\* and the last point of the balance curve equal final_capital, also when the
\* last position was closed by the forced close after the loop.
C29_CurvesEndAtFinalCapital ==
    pc = "done" =>
        /\ result.equity_curve[Len(result.equity_curve)] = result.final_capital
        /\ result.balance_curve[Len(result.balance_curve)] = result.final_capital

\* the trade closed inside the loop on the bar being recorded, if there is one
C30_ClosedOnThisBar ==
    /\ trades # <<>>
    /\ trades[Len(trades)].exit_time = CurrentTimestamp

\* C30: the balance and the ledger change only on a step that closes the
\* open position, and then the balance moves by the pnl of the trade appended;
\* the balance point recorded for a bar differs from the previous point by
\* the pnl of the trade closed on that bar, and by nothing on any other bar.
C30_BalanceMovesOnlyOnClose ==
    [][/\ (current_balance' # current_balance \/ trades' # trades) =>
              /\ current_position.present
              /\ ~current_position'.present
              /\ Len(trades') = Len(trades) + 1
              /\ SubSeq(trades', 1, Len(trades)) = trades
              /\ current_balance' =
                     current_balance + trades'[Len(trades')].pnl
       /\ (pc = "record" /\ pc' = "loop") =>
              /\ Len(balance_curve') = Len(balance_curve) + 1
              /\ balance_curve'[Len(balance_curve')]
                     - balance_curve[Len(balance_curve)] =
                 IF C30_ClosedOnThisBar
                 THEN trades[Len(trades)].pnl ELSE 0]_vars

\* a position opened on the first bar and carried, marked to market, to the
\* second, where it was closed at a profit or a loss: the first two balance
\* points are equal and the third differs by the trade's pnl
C30_OpenedThenClosedNextBar ==
    /\ Len(balance_curve) = 3
    /\ Len(trades) = 1
    /\ trades[1].entry_time = timestamps[1]
    /\ trades[1].exit_time = timestamps[2]
    /\ trades[1].pnl # 0
    /\ balance_curve[2] = balance_curve[1]
    /\ balance_curve[3] = balance_curve[2] + trades[1].pnl

====
